---- MODULE Spec2Model ----
(***************************************************************************)
(* File-to-link bot: the HTTP handlers of server.py (WebServer), the       *)
(* Stats Sink of database.py (update_file_stats), the handlers of bot.py   *)
(* (file_handler, start_handler, broadcast_handler, update_stats_task) and *)
(* the start and the end of the application (app.py).                      *)
(*                                                                         *)
(* Strings that the code parses are sequences of one-character strings, so *)
(* that str.replace, str.split and int() are computed, not assumed.        *)
(*                                                                         *)
(* The specifications:                                                     *)
(*   Spec        the program as written.  server.py binds, at module level,*)
(*               only the names of ServerGlobals (its import lines and its *)
(*               class).  _serve_file uses three bare names that are not   *)
(*               among them and are no parameter or local of the method:   *)
(*               get_hash (line 486), get_media_from_message (line 493)    *)
(*               and request (line 518).  Evaluating one raises NameError, *)
(*               which the handler's `except Exception` turns into 500.    *)
(*   SpecLinked  the same handlers with these three names bound to what    *)
(*               the repository defines for them (utils.get_hash,          *)
(*               utils.get_media_from_message, the handler's request).  It *)
(*               shows what the code after line 486 does once reached.     *)
(*   SpecEither  the web server started either way.                        *)
(*   SpecBot     the program as written with an upload of the bot running  *)
(*               next to one request of the web server.                    *)
(*   SpecStore   the program as written, the writers of the shared session:*)
(*               the uploads, start_handler and update_stats_task.         *)
(*   SpecSizeless  the web server with the names bound, serving a stored   *)
(*               media that has no file_size attribute.                    *)
(*   SpecGate    the program as written, one upload under every setting of *)
(*               the size limits, the extension list and force-subscribe.  *)
(*   SpecBroadcast  the program as written, one /broadcast.                *)
(*   SpecApp     main of app.py from its start to its end, with the        *)
(*               handlers the event loop runs in between.                  *)
(***************************************************************************)
EXTENDS Integers, Sequences, FiniteSets, TLC

VARIABLES config, globals, channel, db, users, db_session, bot_stats, rq, up,
          bc, app

vars ==
  <<config, globals, channel, db, users, db_session, bot_stats, rq, up, bc,
    app>>

\* the state that the handlers of the web server, file_handler,
\* start_handler and update_stats_task do not assign
others == <<config, globals, bc, app>>

(***************************************************************************)
(* Bounds of the model.                                                    *)
(***************************************************************************)
ChunkSize == 2     \* bytes per chunk produced by the stream source
FileSize == 4      \* size of the stored media file
MaxRetries == 2    \* deepest nesting of file_handler's retry that is followed
MaxUsers == 11     \* most users a broadcast goes to

\* the requests in flight
Reqs == {1, 2}

\* the uploads in flight
Uploads == {1, 2}

(***************************************************************************)
(* Python values.                                                          *)
(***************************************************************************)
None == "<None>"                 \* absent query value
NoHeader == <<"<None>">>         \* request.headers.get('Range') is None

Max(a, b) == IF a >= b THEN a ELSE b
Min(a, b) == IF a <= b THEN a ELSE b

\* a test for None alone, which lets the empty string through
Truthy_NotNone(s) == s # None

\* truthiness of a str (or None) used in `if not file_hash`
Truthy(s) == s # None /\ s # ""
\* truthiness of a header value (None or the empty string are falsy)
TruthyHeader(h) == h # NoHeader /\ h # <<>>

(***************************************************************************)
(* Module namespace of server.py.                                          *)
(***************************************************************************)
\* the names server.py imports from the modules of this repository (lines
\* 14-16); its other module-level names are library imports and WebServer
ServerGlobals ==
  {"Config", "FileStats", "update_file_stats", "get_readable_file_size",
   "get_readable_time"}

\* the bare names _serve_file evaluates that server.py never binds
UnboundNames == {"get_hash", "get_media_from_message", "request"}

Bound(name) == name \in globals

(***************************************************************************)
(* str methods and int() used by _parse_range, on character sequences.     *)
(***************************************************************************)
bytes_eq == <<"b", "y", "t", "e", "s", "=">>

DigitVal ==
  [c \in {"0", "1", "2", "3", "4", "5", "6", "7", "8", "9"} |->
     CASE c = "0" -> 0 [] c = "1" -> 1 [] c = "2" -> 2 [] c = "3" -> 3
       [] c = "4" -> 4 [] c = "5" -> 5 [] c = "6" -> 6 [] c = "7" -> 7
       [] c = "8" -> 8 [] c = "9" -> 9]

IsDigit(c) == c \in DOMAIN DigitVal

\* s[i:] of Python
From(s, i) == SubSeq(s, i, Len(s))

\* s.startswith(p)
StartsWith(s, p) == Len(s) >= Len(p) /\ SubSeq(s, 1, Len(p)) = p

\* s.replace(old, ''): every non-overlapping occurrence, left to right
RECURSIVE Remove(_, _)
Remove(s, old) ==
  IF s = <<>> THEN <<>>
  ELSE IF StartsWith(s, old) THEN Remove(From(s, Len(old) + 1), old)
  ELSE <<Head(s)>> \o Remove(Tail(s), old)

\* s.split(sep) for a one-character separator: the list of parts
RECURSIVE Split(_, _)
Split(s, sep) ==
  IF \A i \in 1 .. Len(s) : s[i] # sep THEN <<s>>
  ELSE LET k == CHOOSE i \in 1 .. Len(s) :
                   s[i] = sep /\ \A j \in 1 .. (i - 1) : s[j] # sep
       IN <<SubSeq(s, 1, k - 1)>> \o Split(From(s, k + 1), sep)

\* s.strip() for blanks
RECURSIVE Strip(_)
Strip(s) ==
  IF s = <<>> THEN s
  ELSE IF Head(s) = " " THEN Strip(Tail(s))
  ELSE IF s[Len(s)] = " " THEN Strip(SubSeq(s, 1, Len(s) - 1))
  ELSE s

\* the digits of an int literal body: digits, single underscores between them
IsIntBody(s) ==
  /\ s # <<>>
  /\ IsDigit(s[1]) /\ IsDigit(s[Len(s)])
  /\ \A i \in 1 .. Len(s) : IsDigit(s[i]) \/ s[i] = "_"
  /\ \A i \in 1 .. (Len(s) - 1) : ~(s[i] = "_" /\ s[i + 1] = "_")

RECURSIVE IntBodyVal(_, _)
IntBodyVal(s, acc) ==
  IF s = <<>> THEN acc
  ELSE IF Head(s) = "_" THEN IntBodyVal(Tail(s), acc)
  ELSE IntBodyVal(Tail(s), acc * 10 + DigitVal[Head(s)])

\* int(s): [ok |-> FALSE] stands for ValueError
int(s) ==
  LET t == Strip(s)
      signed == t # <<>> /\ Head(t) \in {"+", "-"}
      body == IF signed THEN Tail(t) ELSE t
      sign == IF signed /\ Head(t) = "-" THEN -1 ELSE 1
  IN IF IsIntBody(body)
     THEN [ok |-> TRUE, val |-> sign * IntBodyVal(body, 0)]
     ELSE [ok |-> FALSE, val |-> 0]

(***************************************************************************)
(* WebServer._parse_range (server.py 542-553).                             *)
(***************************************************************************)
parse_range(range_header, file_size) ==
  LET range_value == Remove(range_header, bytes_eq)
      parts == Split(range_value, "-")
      fallback == <<0, file_size - 1>>
  IN IF Len(parts) # 2 THEN fallback              \* unpacking raises ValueError
     ELSE LET f == IF parts[1] # <<>> THEN int(parts[1])
                   ELSE [ok |-> TRUE, val |-> 0]
              t == IF parts[2] # <<>> THEN int(parts[2])
                   ELSE [ok |-> TRUE, val |-> file_size - 1]
          IN IF ~f.ok \/ ~t.ok THEN fallback      \* int() raises ValueError
             ELSE <<Max(0, f.val), Min(t.val, file_size - 1)>>

(***************************************************************************)
(* The storage channel (platform) and the integrity token.                 *)
(***************************************************************************)
MsgIds == {1, 2}

\* every message id the channel can hold: each forward takes the next one
ChannelIds == 1 .. (2 + Cardinality(Uploads) * (MaxRetries + 1))

\* the ids a client asks for: the two of MsgIds and every forwarded copy
RequestIds == MsgIds \cup {i \in ChannelIds : channel[i].kind = "media"}

\* a message as bot.get_messages returns it; one without media has neither
\* message.media nor any of the media attributes
NoMedia(kind) ==
  [kind |-> kind, file_unique_id |-> "", file_id |-> "", file_size |-> 0]

Tokens == {"a1", "b2"}

\* hashlib.md5(file_unique_id.encode()).hexdigest()[:12]: a fixed function
md5_12(file_unique_id) == IF file_unique_id = "u1" THEN "a1" ELSE "b2"

\* utils.get_media_from_message: the media payload, or None
get_media_from_message(message) == message.kind = "media"

\* utils.get_hash
get_hash(message) ==
  IF get_media_from_message(message) THEN md5_12(message.file_unique_id)
  ELSE ""

(***************************************************************************)
(* The one SQLAlchemy session that app.py creates and hands to the bot and *)
(* to the web server (app.py 66-67).  db and users are the committed       *)
(* tables; db_session.new holds the FileStats rows that a flush has        *)
(* inserted in the open transaction and no commit has made durable;        *)
(* db_session.inactive says that a flush failed and no rollback() was      *)
(* called since, in which state every query, flush and commit raises.      *)
(***************************************************************************)
NoRows == [f \in {} |-> 0]

CleanSession == [new |-> NoRows, inactive |-> FALSE]

\* the join of two tables with disjoint keys
Merge(rows, more) ==
  [f \in DOMAIN rows \cup DOMAIN more |->
     IF f \in DOMAIN rows THEN rows[f] ELSE more[f]]

\* the FileStats rows a query of the session sees
Visible == Merge(db, db_session.new)

\* the query without its filter_by: every row is counted
update_file_stats_AllRows(session, file_id, action) ==
  [f \in DOMAIN session |->
     [session[f] EXCEPT
        !.views = IF action = "view" THEN @ + 1 ELSE @,
        !.downloads = IF action = "download" THEN @ + 1 ELSE @,
        !.last_accessed = TRUE]]

(***************************************************************************)
(* database.update_file_stats: one query, the increments, one commit, with *)
(* no await in between, so it runs without interleaving.                   *)
(***************************************************************************)
update_file_stats(session, file_id, action) ==
  IF file_id \in DOMAIN session
  THEN [session EXCEPT ![file_id] =
          [@ EXCEPT !.views = IF action = "view" THEN @ + 1 ELSE @,
                    !.downloads = IF action = "download" THEN @ + 1 ELSE @,
                    !.last_accessed = TRUE]]
  ELSE session

(***************************************************************************)
(* State of one request.                                                   *)
(***************************************************************************)
NoContentRange == [unit |-> "", first |-> 0, last |-> 0, size |-> 0]

NoResponse ==
  [status |-> 0, content_length |-> 0, content_range |-> NoContentRange,
   accept_ranges |-> "", content_disposition |-> "", prepared |-> FALSE]

\* the (offset, length) handed to the stream source; none before the call
NoStreamArgs == [offset |-> 0, length |-> 0]

\* the /watch and /dl links of a page or of an upload reply
NoLink == [message_id |-> 0, file_hash |-> ""]

Idle ==
  [pc |-> "idle", handler |-> "", mode |-> "", filename |-> "", message_id |-> 0, file_hash |-> None,
   range |-> NoHeader, message |-> NoMedia("text"), status |-> 0,
   response |-> NoResponse, from_bytes |-> 0, to_bytes |-> 0,
   chunk |-> 0, written |-> 0, stats_calls |-> 0, views_added |-> 0,
   downloads_added |-> 0, error |-> "", errors |-> 0,
   lookup |-> "", lookups |-> 0, verified |-> FALSE,
   scan |-> <<>>, page |-> NoLink, unhandled |-> FALSE,
   asked |-> NoStreamArgs, produced |-> <<>>, sent |-> <<>>]

\* `return web.Response(text=..., status=st)`
Return(q, st) == [q EXCEPT !.pc = "done", !.status = st]

\* the two except clauses taken for one: every exception is answered 404
Raise_NotFound(q, exception) ==
  [q EXCEPT !.pc = "done", !.status = 404, !.error = exception,
            !.errors = @ + 1]

\* an exception reaching `except Exception` (server.py 538-540): it is
\* logged with logger.error and a new 500 response is returned
Raise(q, exception) ==
  [q EXCEPT !.pc = "done", !.status = 500, !.error = exception,
            !.errors = @ + 1]

\* Range header values a client sends
RangeHeaders ==
  { NoHeader,
    bytes_eq \o <<"0", "-", "1">>,
    bytes_eq \o <<"2", "-">>,
    bytes_eq \o <<"1", "-", "9">>,
    bytes_eq \o <<"-", "2">>,
    bytes_eq \o <<"a", "b", "c">>,
    bytes_eq \o <<"6", "-", "9">>,
    bytes_eq \o <<"3", "-", "1">> }

Hashes == {None, ""} \cup Tokens

\* the {filename} segment of the path
Filenames == {"movie.mp4"}

(***************************************************************************)
(* stream_handler / download_handler (server.py 307-327).                  *)
(***************************************************************************)
handler(r, mode, message_id, filename, file_hash, range) ==
  /\ rq[r].pc = "idle"
  /\ rq' = [rq EXCEPT ![r] =
       LET q == [@ EXCEPT !.handler = mode \o "_handler",
                          !.mode = mode, !.message_id = message_id,
                          !.filename = filename,
                          !.file_hash = file_hash, !.range = range]
       IN IF ~Truthy(file_hash) THEN Return(q, 400)
          ELSE [q EXCEPT !.pc = "get_messages"]]
  /\ UNCHANGED <<others, channel, db, users, db_session, bot_stats, up>>

stream_handler(r) ==
  \E message_id \in RequestIds, filename \in Filenames,
     file_hash \in Hashes, range \in RangeHeaders :
       handler(r, "stream", message_id, filename, file_hash, range)

download_handler(r) ==
  \E message_id \in RequestIds, filename \in Filenames,
     file_hash \in Hashes, range \in RangeHeaders :
       handler(r, "download", message_id, filename, file_hash, range)

(***************************************************************************)
(* _serve_file, lines 501-527: the StreamResponse and the byte interval.   *)
(***************************************************************************)
\* the two branches of lines 511-514 with their tests exchanged
ContentDisposition_Exchanged(mode, filename) ==
  IF mode = "download" THEN "inline; filename=\"" \o filename \o "\""
  ELSE "attachment; filename=\"" \o filename \o "\""

\* the Content-Disposition header (lines 511-514)
ContentDisposition(mode, filename) ==
  IF mode = "download" THEN "attachment; filename=\"" \o filename \o "\""
  ELSE "inline; filename=\"" \o filename \o "\""

StreamResponse(mode, filename, range_header, file_size) ==
  LET base == [status |-> 200, content_length |-> file_size,
               content_range |-> NoContentRange, accept_ranges |-> "bytes",
               content_disposition |-> ContentDisposition(mode, filename),
               prepared |-> FALSE]
  IN IF TruthyHeader(range_header)
     THEN LET ft == parse_range(range_header, file_size)
          IN [response |->
                [base EXCEPT !.status = 206,
                             !.content_range =
                                [unit |-> "bytes", first |-> ft[1],
                                 last |-> ft[2], size |-> file_size],
                             !.content_length = ft[2] - ft[1] + 1],
              from_bytes |-> ft[1], to_bytes |-> ft[2]]
     ELSE [response |-> base, from_bytes |-> 0, to_bytes |-> file_size - 1]

\* the test of line 482 reduced to `not message`: a message without media
\* is let through
HasMedia_MessageOnly(message) == message.kind # ""

\* an exception raised where no try encloses it: aiohttp ends the request
\* with its own 500 response
Unhandled(q, exception) ==
  [q EXCEPT !.pc = "done", !.status = 500, !.error = exception,
            !.unhandled = TRUE]

\* `not message or not message.media` (server.py 482), negated
HasMedia(message) == message.kind = "media"

(***************************************************************************)
(* _serve_file from the return of get_messages (line 480) to the await of  *)
(* response.prepare (line 528): no suspension point in between.  Line 490  *)
(* keys the Stats Sink by message.media.file_id, modelled as the file_id   *)
(* of the message's media (the reading most favourable to the code).       *)
(***************************************************************************)
AfterGetMessages(q, message, sink_ok) ==
  IF ~HasMedia(message)
  THEN [q |-> Return(q, 404), db |-> db, committed |-> FALSE]
  ELSE IF ~Bound("get_hash")
  THEN [q |-> Raise(q, "NameError"), db |-> db, committed |-> FALSE]
  ELSE IF get_hash(message) # q.file_hash
       THEN [q |-> Return(q, 403), db |-> db, committed |-> FALSE]
  ELSE IF ~sink_ok \/ db_session.inactive
       THEN [q |-> Raise([q EXCEPT !.verified = TRUE,
                                   !.stats_calls = @ + 1], "SinkError"),
             db |-> db, committed |-> FALSE]
  ELSE LET found == message.file_id \in DOMAIN Visible
           updated == IF found
                      THEN update_file_stats(Visible, message.file_id, q.mode)
                      ELSE db
           called ==
             [q EXCEPT !.verified = TRUE,
                       !.stats_calls = @ + 1,
                       !.views_added =
                          IF found
                          THEN updated[message.file_id].views
                                 - Visible[message.file_id].views
                          ELSE 0,
                       !.downloads_added =
                          IF found
                          THEN updated[message.file_id].downloads
                                 - Visible[message.file_id].downloads
                          ELSE 0]
       IN IF ~Bound("get_media_from_message") \/ ~Bound("request")
          THEN [q |-> Raise(called, "NameError"), db |-> updated,
                committed |-> found]
          ELSE LET sr == StreamResponse(q.mode, q.filename, q.range,
                                        message.file_size)
               IN [q |-> [called EXCEPT
                            !.pc = "prepare",
                            !.response = sr.response,
                            !.from_bytes = sr.from_bytes,
                            !.to_bytes = sr.to_bytes],
                   db |-> updated, committed |-> found]

\* what `await self.bot.get_messages(...)` can do: return the message, or
\* raise MessageNotFound, FloodWait (rate limit) or another platform error
LookupOutcomes == {"message", "MessageNotFound", "FloodWait", "Exception"}

serve_file_get_messages(r) ==
  /\ rq[r].pc = "get_messages"
  /\ \E outcome \in LookupOutcomes, sink_ok \in BOOLEAN :
       LET q == [rq[r] EXCEPT !.lookup = outcome, !.lookups = @ + 1]
           message == channel[q.message_id]
           next == AfterGetMessages([q EXCEPT !.message = message], message,
                                    sink_ok)
       IN IF outcome = "MessageNotFound"
          THEN /\ rq' = [rq EXCEPT ![r] = Return(q, 404)]
               /\ UNCHANGED <<db, db_session>>
          ELSE IF outcome = "FloodWait"
          THEN /\ rq' = [rq EXCEPT ![r] = Raise(q, "FloodWait")]
               /\ UNCHANGED <<db, db_session>>
          ELSE IF outcome = "Exception"
          THEN /\ rq' = [rq EXCEPT ![r] = Raise(q, "PlatformError")]
               /\ UNCHANGED <<db, db_session>>
          ELSE /\ rq' = [rq EXCEPT ![r] = next.q]
               /\ db' = next.db
               /\ db_session' = IF next.committed THEN CleanSession
                                ELSE db_session
  /\ UNCHANGED <<others, channel, users, bot_stats, up>>

(***************************************************************************)
(* _serve_file, lines 528-534: prepare, then the copy loop.                *)
(***************************************************************************)
\* the length taken for the distance of the two ends
StreamArgs_Distance(q) ==
  [offset |-> q.from_bytes, length |-> q.to_bytes - q.from_bytes]

\* the arguments of `self.bot.stream_media(message, ...)` (line 531)
StreamArgs(q) ==
  [offset |-> q.from_bytes, length |-> q.to_bytes - q.from_bytes + 1]

\* bytes the stream source still has to produce for (offset, length)
Remaining(q) ==
  LET length == StreamArgs(q).length
      stop == Min(q.from_bytes + length, q.message.file_size)
  IN Max(0, stop - (q.from_bytes + q.written))

\* the chunk the source produces next: its first byte and its size
NextChunk(q) ==
  [first |-> q.from_bytes + q.written, size |-> Min(ChunkSize, Remaining(q))]

\* the copy loop entered without `await response.prepare(request)`
serve_file_prepare_Skipped(r) ==
  /\ rq[r].pc = "prepare"
  /\ rq' = [rq EXCEPT ![r] = [@ EXCEPT !.pc = "pull"]]
  /\ UNCHANGED <<others, channel, db, users, db_session, bot_stats, up>>

\* `await response.prepare(request)` (line 528)
serve_file_prepare(r) ==
  /\ rq[r].pc = "prepare"
  /\ \E ok \in BOOLEAN :
       rq' = [rq EXCEPT ![r] =
                IF ok THEN [@ EXCEPT !.pc = "pull", !.response.prepared = TRUE]
                ELSE Raise(@, "ConnectionError")]
  /\ UNCHANGED <<others, channel, db, users, db_session, bot_stats, up>>

\* the next chunk fetched while the last one is still being written
serve_file_pull_ReadAhead(r) ==
  /\ rq[r].pc \in {"pull", "write"}
  /\ Remaining(rq[r]) > 0
  /\ rq' = [rq EXCEPT ![r] =
              [@ EXCEPT !.pc = "write", !.asked = StreamArgs(rq[r]),
                        !.chunk = NextChunk(rq[r]).size,
                        !.produced = Append(@, NextChunk(rq[r]))]]
  /\ UNCHANGED <<others, channel, db, users, db_session, bot_stats, up>>

\* one turn of `async for chunk in self.bot.stream_media(...)` (line 531)
serve_file_pull(r) ==
  /\ rq[r].pc = "pull"
  /\ \E ok \in BOOLEAN :
       LET q == rq[r]
           s == [q EXCEPT !.asked = StreamArgs(q)]
       IN rq' = [rq EXCEPT ![r] =
                   IF ~ok THEN Raise(s, "PlatformError")
                   ELSE IF Remaining(q) = 0 THEN Return(s, q.response.status)
                   ELSE [s EXCEPT !.pc = "write",
                                  !.chunk = NextChunk(q).size,
                                  !.produced = Append(@, NextChunk(q))]]
  /\ UNCHANGED <<others, channel, db, users, db_session, bot_stats, up>>

serve_file_write(r) ==
  /\ rq[r].pc = "write"
  /\ \E ok \in BOOLEAN :
       LET q == rq[r]
       IN rq' = [rq EXCEPT ![r] =
                   IF ok THEN [q EXCEPT !.pc = "pull",
                                        !.written = q.written + q.chunk,
                                        !.chunk = 0,
                                        !.sent = Append(@, q.produced[
                                                   Len(q.produced)])]
                   ELSE Raise(q, "ConnectionError")]
  /\ UNCHANGED <<others, channel, db, users, db_session, bot_stats, up>>

(***************************************************************************)
(* short_link_handler (server.py 329-442): the records are read once, then *)
(* one message is fetched per record until a token matches.  No try        *)
(* encloses the loop.                                                      *)
(***************************************************************************)
\* `self.db_session.query(FileStats).all()`: the message ids in row order
Records(session) ==
  [k \in 1 .. Cardinality(DOMAIN session) |->
     session[CHOOSE f \in DOMAIN session : session[f].id = k].message_id]

\* the end of the loop (lines 341-442): 404, or the page with its links
ShortLinkEnd(q, message_id) ==
  IF message_id = 0 THEN Return(q, 404)
  ELSE [Return(q, 200) EXCEPT
          !.page = [message_id |-> message_id, file_hash |-> q.file_hash]]

short_link_handler(r) ==
  /\ rq[r].pc = "idle"
  /\ \E file_hash \in Tokens :
       rq' = [rq EXCEPT ![r] =
          LET q == [@ EXCEPT !.handler = "short_link_handler",
                             !.file_hash = file_hash]
          IN IF db_session.inactive
             THEN Unhandled(q, "PendingRollbackError")
             ELSE IF Records(Visible) = <<>> THEN ShortLinkEnd(q, 0)
             ELSE [q EXCEPT !.pc = "scan", !.scan = Records(Visible)]]
  /\ UNCHANGED <<others, channel, db, users, db_session, bot_stats, up>>

\* `msg = await self.bot.get_messages(BIN_CHANNEL, fs.message_id)` returns
\* or raises, then lines 337-339 and the next turn of the loop
short_link_get_messages(r) ==
  /\ rq[r].pc = "scan"
  /\ \E outcome \in LookupOutcomes :
       LET q == [rq[r] EXCEPT !.lookup = outcome, !.lookups = @ + 1]
           msg == channel[Head(q.scan)]
       IN rq' = [rq EXCEPT ![r] =
            IF outcome = "MessageNotFound" THEN Unhandled(q, outcome)
            ELSE IF outcome = "FloodWait" THEN Unhandled(q, outcome)
            ELSE IF outcome = "Exception" THEN Unhandled(q, "PlatformError")
            ELSE IF ~Bound("get_hash") THEN Unhandled(q, "NameError")
            ELSE IF get_hash(msg) = q.file_hash
                 THEN ShortLinkEnd(q, Head(q.scan))
            ELSE IF Tail(q.scan) = <<>> THEN ShortLinkEnd(q, 0)
            ELSE [q EXCEPT !.scan = Tail(@)]]
  /\ UNCHANGED <<others, channel, db, users, db_session, bot_stats, up>>

(***************************************************************************)
(* bot.file_handler (bot.py 304-438).  The bot runs on the event loop and  *)
(* the db session of the web server; every action below is the code        *)
(* between two awaits of one call of the handler.                          *)
(***************************************************************************)
\* the settings the model reads, at their defaults (config.py 39-47);
\* the default size limit admits every file the platform carries
Config ==
  [ENABLE_STATS |-> TRUE,
   ENABLE_FORCE_SUB |-> FALSE, FORCE_SUB_CHANNEL |-> None,
   MIN_FILE_SIZE |-> 0, MAX_FILE_SIZE |-> FileSize,
   ALLOWED_EXTENSIONS |-> {}]

\* the settings an operator can give through the environment
\* (config.py 41-47): the limits around the size of the files sent, an
\* extension list that names their extension, another one, or none
Configs ==
  [ENABLE_STATS : {TRUE},
   ENABLE_FORCE_SUB : BOOLEAN, FORCE_SUB_CHANNEL : {None, "@channel"},
   MIN_FILE_SIZE : {0, FileSize, FileSize + 1},
   MAX_FILE_SIZE : {FileSize - 1, FileSize},
   ALLOWED_EXTENSIONS : {{}, {<<"m", "p", "4">>}, {<<"z", "i", "p">>}}]

\* the lower limit alone
validate_file_size_NoMax(size, min_size, max_size) == ~(size < min_size)

\* utils.validate_file_size
validate_file_size(size, min_size, max_size) ==
  ~(size < min_size) /\ ~(size > max_size)

\* str.lower() on the letters A-Z
LowerCase ==
  "A" :> "a" @@ "B" :> "b" @@ "C" :> "c" @@ "D" :> "d" @@ "E" :> "e"
  @@ "F" :> "f" @@ "G" :> "g" @@ "H" :> "h" @@ "I" :> "i" @@ "J" :>
  "j" @@ "K" :> "k" @@ "L" :> "l" @@ "M" :> "m" @@ "N" :> "n" @@ "O"
  :> "o" @@ "P" :> "p" @@ "Q" :> "q" @@ "R" :> "r" @@ "S" :> "s" @@
  "T" :> "t" @@ "U" :> "u" @@ "V" :> "v" @@ "W" :> "w" @@ "X" :> "x"
  @@ "Y" :> "y" @@ "Z" :> "z"

lower(s) ==
  [i \in 1 .. Len(s) |->
     IF s[i] \in DOMAIN LowerCase THEN LowerCase[s[i]] ELSE s[i]]

\* os.path.splitext(filename)[1]: from the last dot on, unless only dots
\* stand before it
splitext(filename) ==
  LET dots == {i \in 1 .. Len(filename) : filename[i] = "."}
  IN IF dots = {} THEN <<>>
     ELSE LET k == CHOOSE i \in dots : \A j \in dots : j <= i
          IN IF \A j \in 1 .. (k - 1) : filename[j] = "." THEN <<>>
             ELSE From(filename, k)

\* utils.validate_file_extension
validate_file_extension(filename, allowed_extensions) ==
  LET ext == lower(splitext(filename))
  IN \/ allowed_extensions = {}
     \/ ext # <<>> /\ Tail(ext) \in allowed_extensions

\* the statuses file_handler accepts (bot.py 315)
Subscribed == {"OWNER", "ADMINISTRATOR", "MEMBER"}

\* what the channel knows of a user: a ChatMemberStatus, or nothing at all
\* (get_chat_member then raises UserNotParticipant)
Memberships ==
  Subscribed \cup {"RESTRICTED", "LEFT", "BANNED", "UserNotParticipant"}

\* the name of the file every upload of the narrow specifications carries
UploadName == <<"m", "o", "v", "i", "e", ".", "m", "p", "4">>

\* the names of the files sent when the settings vary
FileNames ==
  {UploadName, <<"a", ".", "M", "P", "4">>, <<"a">>,
   <<"a", ".", "e", "x", "e">>}

\* users that send a file: 7 has a User row (it ran /start), 8 has none
UploadUsers == {7, 8}

\* the files they send: the stored file once more, or a new one
UploadMedia ==
  {[kind |-> "media", file_unique_id |-> "u1", file_id |-> "f1",
    file_size |-> FileSize],
   [kind |-> "media", file_unique_id |-> "u3", file_id |-> "f3",
    file_size |-> FileSize]}

\* the seconds a FloodWait asks for (e.x)
FloodSeconds == {1, 2}

\* what an awaited platform call inside the try does: it returns, or raises
\* FloodWait with its delay, or raises another error
CallOutcomes ==
  {[kind |-> "ok", x |-> 0], [kind |-> "Exception", x |-> 0]}
  \cup {[kind |-> "FloodWait", x |-> s] : s \in FloodSeconds}

NoUpload ==
  [pc |-> "idle", user_id |-> 0, media |-> NoMedia("empty"),
   file_name |-> <<>>, membership |-> "", valid |-> TRUE,
   prompted |-> FALSE,
   depth |-> 0, forwards |-> 0, link |-> NoLink, delivered |-> FALSE,
   flood_x |-> 0, slept |-> <<>>, error |-> "", errors |-> 0,
   unhandled |-> FALSE]

\* an exception no `except` of file_handler catches: the call ends with it
Propagate(w, exception) ==
  [w EXCEPT !.pc = "done", !.error = exception, !.unhandled = TRUE]

\* `except Exception` (bot.py 433-438): logger.error, then the error text
Except(w, exception) ==
  [w EXCEPT !.pc = "edit_error", !.error = exception, !.errors = @ + 1]

\* `except FloodWait as e` (bot.py 426-431), up to its first await
ExceptFloodWait(w, x) == [w EXCEPT !.pc = "edit_flood", !.flood_x = x]

\* lines 321-342 of one call: the two validations
Validate(w) ==
  IF ~validate_file_size(w.media.file_size, config.MIN_FILE_SIZE,
                         config.MAX_FILE_SIZE)
  THEN [w EXCEPT !.pc = "reply_invalid", !.valid = FALSE]
  ELSE IF ~validate_file_extension(w.file_name, config.ALLOWED_EXTENSIONS)
  THEN [w EXCEPT !.pc = "reply_invalid", !.valid = FALSE]
  ELSE [w EXCEPT !.pc = "reply_text"]

\* lines 306-309 of one call: is the membership asked for at all
Enter(w) ==
  IF config.ENABLE_FORCE_SUB /\ Truthy(config.FORCE_SUB_CHANNEL)
  THEN [w EXCEPT !.pc = "get_chat_member"]
  ELSE Validate(w)

\* a private message with media arrives
Receive(u, user_id, media, file_name, membership) ==
  /\ up[u].pc = "idle"
  /\ up' = [up EXCEPT ![u] =
              Enter([@ EXCEPT !.user_id = user_id, !.media = media,
                              !.file_name = file_name,
                              !.membership = membership])]
  /\ UNCHANGED <<others, channel, db, users, db_session, bot_stats, rq>>

\* such a message, with the one file name, from a member of the channel
file_handler(u) ==
  \E user_id \in UploadUsers, media \in UploadMedia :
     Receive(u, user_id, media, UploadName, "MEMBER")

\* such a message, with any of the file names, from anybody
file_handler_any(u) ==
  \E user_id \in UploadUsers, media \in UploadMedia,
     file_name \in FileNames, membership \in Memberships :
       Receive(u, user_id, media, file_name, membership)

\* the membership check failed with an error other than UserNotParticipant
\* the error is logged and the handler goes on, as start_handler does
\* (bot.py 111-112)
MembershipError_Logged(w) == Validate(w)

\* the membership check failed with an error other than UserNotParticipant:
\* the try of lines 310-319 has no clause for it, the call ends with it
MembershipError(w) == Propagate(w, "ChatAdminRequired")

\* `member = await self.get_chat_member(...)` and the test of its status
\* (310-317)
file_handler_get_chat_member(u) ==
  /\ up[u].pc = "get_chat_member"
  /\ \E outcome \in {"ok", "Exception"} :
       up' = [up EXCEPT ![u] =
                IF outcome = "Exception" THEN MembershipError(@)
                ELSE IF @.membership \notin Subscribed
                THEN [@ EXCEPT !.pc = "send_force_sub_message"]
                ELSE Validate(@)]
  /\ UNCHANGED <<others, channel, db, users, db_session, bot_stats, rq>>

\* `await self.send_force_sub_message(message)` and the return (318-319)
send_force_sub_message(u) ==
  /\ up[u].pc = "send_force_sub_message"
  /\ \E outcome \in {"ok", "Exception"} :
       up' = [up EXCEPT ![u] =
                IF outcome = "ok"
                THEN [@ EXCEPT !.pc = "done", !.prompted = TRUE]
                ELSE Propagate(@, "PlatformError")]
  /\ UNCHANGED <<others, channel, db, users, db_session, bot_stats, rq>>

\* `await message.reply_text(error_msg)` and the return (332-334, 340-342)
file_handler_reply_invalid(u) ==
  /\ up[u].pc = "reply_invalid"
  /\ \E outcome \in {"ok", "Exception"} :
       up' = [up EXCEPT ![u] =
                IF outcome = "ok" THEN [@ EXCEPT !.pc = "done"]
                ELSE Propagate(@, "PlatformError")]
  /\ UNCHANGED <<others, channel, db, users, db_session, bot_stats, rq>>

\* `process_msg = await message.reply_text(...)` (343-348), outside the try
file_handler_reply_text(u) ==
  /\ up[u].pc = "reply_text"
  /\ \E outcome \in {"ok", "Exception"} :
       up' = [up EXCEPT ![u] =
                IF outcome = "ok" THEN [@ EXCEPT !.pc = "forward"]
                ELSE Propagate(@, "PlatformError")]
  /\ UNCHANGED <<others, channel, db, users, db_session, bot_stats, rq>>

\* the id the channel gives the next message
NextMessageId ==
  CHOOSE i \in ChannelIds :
     /\ channel[i].kind = "empty"
     /\ \A j \in ChannelIds : j < i => channel[j].kind # "empty"

\* `forwarded = await message.forward(BIN_CHANNEL)` and, when it returns,
\* lines 355-381: the links, the FileStats row, the User counters, commit
file_handler_forward(u) ==
  /\ up[u].pc = "forward"
  /\ \E i \in ChannelIds : channel[i].kind = "empty"
  /\ \E outcome \in CallOutcomes :
       LET w == up[u]
           id == NextMessageId
           forwarded == w.media
           linked == [w EXCEPT !.forwards = @ + 1,
                               !.link = [message_id |-> id,
                                         file_hash |-> get_hash(forwarded)]]
           file_stats == [id |-> Cardinality(DOMAIN Visible) + 1,
                          message_id |-> id, user_id |-> w.user_id,
                          file_size |-> w.media.file_size,
                          views |-> 0, downloads |-> 0,
                          last_accessed |-> FALSE]
           added == Merge(Visible, w.media.file_id :> file_stats)
       IN IF outcome.kind = "FloodWait"
          THEN /\ up' = [up EXCEPT ![u] = ExceptFloodWait(w, outcome.x)]
               /\ UNCHANGED <<channel, db, users, db_session>>
          ELSE IF outcome.kind = "Exception"
          THEN /\ up' = [up EXCEPT ![u] = Except(w, "PlatformError")]
               /\ UNCHANGED <<channel, db, users, db_session>>
          ELSE /\ channel' = [channel EXCEPT ![id] = forwarded]
               /\ IF db_session.inactive
                  THEN \* the query of line 376 finds the session unusable
                       /\ up' = [up EXCEPT ![u] =
                                   Except(linked, "PendingRollbackError")]
                       /\ UNCHANGED <<db, users, db_session>>
                  ELSE IF w.media.file_id \in DOMAIN Visible
                  THEN \* the flush before that query hits UNIQUE(file_id):
                       \* the transaction is rolled back, the session is
                       \* left waiting for a rollback() nobody calls
                       /\ up' = [up EXCEPT ![u] =
                                   Except(linked, "IntegrityError")]
                       /\ db_session' = [new |-> NoRows, inactive |-> TRUE]
                       /\ UNCHANGED <<db, users>>
                  ELSE IF w.user_id \notin DOMAIN users
                  THEN \* `user` is None at line 377; the flushed row
                       \* stays in the open transaction
                       /\ up' = [up EXCEPT ![u] =
                                   Except(linked, "AttributeError")]
                       /\ db_session' =
                            [db_session EXCEPT
                               !.new = Merge(@, w.media.file_id :> file_stats)]
                       /\ UNCHANGED <<db, users>>
                  ELSE \* line 381 commits everything the session holds
                       /\ db' = added
                       /\ db_session' = CleanSession
                       /\ users' = [users EXCEPT ![w.user_id] =
                            [@ EXCEPT !.files_uploaded = @ + 1,
                                      !.total_size_uploaded =
                                         @ + w.media.file_size]]
                       /\ up' = [up EXCEPT ![u] =
                                   [linked EXCEPT !.pc = "edit_success"]]
  /\ UNCHANGED <<others, bot_stats, rq>>

\* `await process_msg.edit_text(success_text, ...)` (413-417), in the try
file_handler_edit_success(u) ==
  /\ up[u].pc = "edit_success"
  /\ \E outcome \in CallOutcomes :
       up' = [up EXCEPT ![u] =
                IF outcome.kind = "ok"
                THEN [@ EXCEPT !.pc = "done", !.delivered = TRUE]
                ELSE IF outcome.kind = "FloodWait"
                THEN ExceptFloodWait(@, outcome.x)
                ELSE Except(@, "PlatformError")]
  /\ UNCHANGED <<others, channel, db, users, db_session, bot_stats, rq>>

\* `await process_msg.edit_text("FloodWait: ...")` (427-429)
file_handler_edit_flood(u) ==
  /\ up[u].pc = "edit_flood"
  /\ \E outcome \in {"ok", "Exception"} :
       up' = [up EXCEPT ![u] =
                IF outcome = "ok" THEN [@ EXCEPT !.pc = "sleep"]
                ELSE Propagate(@, "PlatformError")]
  /\ UNCHANGED <<others, channel, db, users, db_session, bot_stats, rq>>

\* `await asyncio.sleep(e.x)` ends and `await self.file_handler(message)`
\* (430-431) runs the handler again, one level deeper
file_handler_retry(u) ==
  /\ up[u].pc = "sleep"
  /\ up[u].depth < MaxRetries
  /\ up' = [up EXCEPT ![u] =
              Enter([@ EXCEPT !.slept = Append(@, up[u].flood_x),
                              !.depth = @ + 1])]
  /\ UNCHANGED <<others, channel, db, users, db_session, bot_stats, rq>>

\* `await process_msg.edit_text("Error uploading file!")` (435-438)
file_handler_edit_error(u) ==
  /\ up[u].pc = "edit_error"
  /\ \E outcome \in {"ok", "Exception"} :
       up' = [up EXCEPT ![u] =
                IF outcome = "ok" THEN [@ EXCEPT !.pc = "done"]
                ELSE Propagate(@, "PlatformError")]
  /\ UNCHANGED <<others, channel, db, users, db_session, bot_stats, rq>>

(***************************************************************************)
(* The other users of the session that commit: start_handler through       *)
(* get_or_create_user (bot.py 85-98, database.py 140-153) and the          *)
(* background task update_stats_task (bot.py 683-701).  Neither has an     *)
(* await between its first query and its commit.                           *)
(***************************************************************************)
\* /start from a user: the User row is created when missing, then commit;
\* on an unusable session the query raises and the handler ends there
start_handler ==
  /\ ~db_session.inactive
  /\ \E user_id \in UploadUsers :
       users' = IF user_id \in DOMAIN users THEN users
                ELSE Merge(users, user_id :> [files_uploaded |-> 0,
                                             total_size_uploaded |-> 0,
                                             is_banned |-> FALSE])
  /\ db' = Visible
  /\ db_session' = CleanSession
  /\ UNCHANGED <<others, channel, bot_stats, rq, up>>

\* one turn of the loop: the counts, then commit; on an unusable session
\* the first query raises, `except Exception` logs it, the turn ends
update_stats_task ==
  /\ ~db_session.inactive
  /\ bot_stats' = [total_users |-> Cardinality(DOMAIN users),
                   total_files |-> Cardinality(DOMAIN Visible)]
  /\ db' = Visible
  /\ db_session' = CleanSession
  /\ UNCHANGED <<others, channel, users, rq, up>>

(***************************************************************************)
(* bot.broadcast_handler (bot.py 482-535); every action is the code        *)
(* between two awaits of one call.                                         *)
(***************************************************************************)
BarLength == 10        \* create_progress_bar(..., length=10)
ProgressEvery == 10    \* `(i + 1) % 10 == 0`

ZeroDivisionError == [raised |-> "ZeroDivisionError", filled |-> 0]

\* utils.create_progress_bar: the number of filled cells, or the error of
\* `length * current // total` when total is 0
create_progress_bar(current, total) ==
  IF total = 0 THEN ZeroDivisionError
  ELSE [raised |-> "", filled |-> (BarLength * current) \div total]

NoReport == [total_users |-> -1, success |-> -1, failed |-> -1]

NoBroadcast ==
  [pc |-> "idle", has_text |-> FALSE, users |-> <<>>, total_users |-> 0,
   i |-> 0, success_count |-> 0, failed_count |-> 0, attempts |-> <<>>,
   progress |-> 0, report |-> NoReport, error |-> "", unhandled |-> FALSE]

\* the rows a query returns, by primary key
RECURSIVE all(_)
all(ids) ==
  IF ids = {} THEN <<>>
  ELSE LET least == CHOOSE i \in ids : \A j \in ids : i <= j
       IN <<least>> \o all(ids \ {least})

\* an exception leaves broadcast_handler: it has no try around its awaits
BroadcastRaise(b, exception) ==
  [b EXCEPT !.pc = "done", !.error = exception, !.unhandled = TRUE]

\* the code after the body of the for loop has run for index b.i
BroadcastAdvance(b) ==
  IF b.i + 1 < b.total_users THEN [b EXCEPT !.pc = "send_message", !.i = @ + 1]
  ELSE [b EXCEPT !.pc = "edit_final", !.i = @ + 1]

\* /broadcast arrives (483-503): the usage text without an argument; else
\* the query and the text of the status message, up to its await
broadcast_handler ==
  /\ bc.pc = "idle"
  /\ \E has_text \in BOOLEAN :
       LET found == all({id \in DOMAIN users : ~users[id].is_banned})
           b == [bc EXCEPT !.has_text = has_text]
           queried == [b EXCEPT !.users = found, !.total_users = Len(found)]
       IN bc' = IF ~has_text THEN [b EXCEPT !.pc = "reply_usage"]
                ELSE IF db_session.inactive
                THEN BroadcastRaise(b, "PendingRollbackError")
                ELSE IF create_progress_bar(0, Len(found)).raised # ""
                THEN BroadcastRaise(queried, "ZeroDivisionError")
                ELSE [queried EXCEPT !.pc = "reply_status"]
  /\ UNCHANGED <<config, globals, channel, db, users, db_session, bot_stats,
                 rq, up, app>>

\* `await message.reply_text("**Usage:** ...")` and the return (485-489)
broadcast_reply_usage ==
  /\ bc.pc = "reply_usage"
  /\ \E outcome \in {"ok", "Exception"} :
       bc' = IF outcome = "ok" THEN [bc EXCEPT !.pc = "done"]
             ELSE BroadcastRaise(bc, "PlatformError")
  /\ UNCHANGED <<config, globals, channel, db, users, db_session, bot_stats,
                 rq, up, app>>

\* `status_msg = await message.reply_text(...)` (498-501), then the
\* counters and the loop head
broadcast_reply_status ==
  /\ bc.pc = "reply_status"
  /\ \E outcome \in {"ok", "Exception"} :
       bc' = IF outcome = "Exception" THEN BroadcastRaise(bc, "PlatformError")
             ELSE IF bc.total_users = 0 THEN [bc EXCEPT !.pc = "edit_final"]
             ELSE [bc EXCEPT !.pc = "send_message"]
  /\ UNCHANGED <<config, globals, channel, db, users, db_session, bot_stats,
                 rq, up, app>>

\* one `await self.send_message(user.id, ...)` in its try (506-515), then
\* the test of line 518 and the text of the progress message
broadcast_send_message ==
  /\ bc.pc = "send_message"
  /\ \E outcome \in {"ok", "Exception"} :
       LET sent == [bc EXCEPT
                      !.attempts = Append(@, bc.users[bc.i + 1]),
                      !.success_count =
                         IF outcome = "ok" THEN @ + 1 ELSE @,
                      !.failed_count =
                         IF outcome = "ok" THEN @ ELSE @ + 1]
       IN bc' = IF (bc.i + 1) % ProgressEvery = 0
                   \/ bc.i = bc.total_users - 1
                THEN [sent EXCEPT
                        !.pc = "edit_progress",
                        !.progress =
                           create_progress_bar(bc.i + 1,
                                               bc.total_users).filled]
                ELSE BroadcastAdvance(sent)
  /\ UNCHANGED <<config, globals, channel, db, users, db_session, bot_stats,
                 rq, up, app>>

\* `await status_msg.edit_text("Broadcasting...")` (520-525)
broadcast_edit_progress ==
  /\ bc.pc = "edit_progress"
  /\ \E outcome \in {"ok", "Exception"} :
       bc' = IF outcome = "ok" THEN BroadcastAdvance(bc)
             ELSE BroadcastRaise(bc, "PlatformError")
  /\ UNCHANGED <<config, globals, channel, db, users, db_session, bot_stats,
                 rq, up, app>>

\* the final `await status_msg.edit_text(...)` (528-535); its text divides
\* by total_users
broadcast_edit_final ==
  /\ bc.pc = "edit_final"
  /\ \E outcome \in {"ok", "Exception"} :
       bc' = IF bc.total_users = 0
             THEN BroadcastRaise(bc, "ZeroDivisionError")
             ELSE IF outcome = "Exception"
             THEN BroadcastRaise(bc, "PlatformError")
             ELSE [bc EXCEPT !.pc = "done",
                             !.report = [total_users |-> bc.total_users,
                                         success |-> bc.success_count,
                                         failed |-> bc.failed_count]]
  /\ UNCHANGED <<config, globals, channel, db, users, db_session, bot_stats,
                 rq, up, app>>

(***************************************************************************)
(* app.py: main, Application.start_services and Application.cleanup.  An   *)
(* action is the code between two awaits; while the application waits in   *)
(* an await the event loop runs the handlers of what is already started.   *)
(***************************************************************************)
\* Application.__init__ (50-56); the counters record the calls made
NoApp ==
  [pc |-> "start_services", db_session |-> "None", bot |-> "None",
   web_server |-> "None", stats_task |-> FALSE, started |-> FALSE,
   failed |-> "", raised |-> "", cleanups |-> 0, stop_calls |-> 0,
   close_calls |-> 0]

\* the application as the handlers of the other specifications find it:
\* start_services waits in idle()
Running ==
  [NoApp EXCEPT !.pc = "idle", !.db_session = "open", !.bot = "started",
                !.web_server = "listening", !.stats_task = TRUE,
                !.started = TRUE]

\* the web server is set up before the bot
StartupOrder_WebFirst ==
  <<"initialize_database", "initialize_web_server", "initialize_bot">>

\* the three awaits of lines 123-125, in their order
StartupOrder ==
  <<"initialize_database", "initialize_bot", "initialize_web_server">>

\* where start_services goes on when the step `name` has returned
After(name) ==
  LET k == CHOOSE i \in 1 .. Len(StartupOrder) : StartupOrder[i] = name
  IN IF k < Len(StartupOrder) THEN StartupOrder[k + 1] ELSE "create_task"

\* the awaits in which the application waits while the loop runs
Awaits ==
  {"bot_start", "get_me", "runner_setup", "site_start", "idle",
   "except_stop", "finally_stop"}

\* the rest of cleanup after `if self.bot` (162-165), and what follows the
\* call: sys.exit(1) in start_services, whose SystemExit passes both except
\* clauses of main and reaches its finally; loop.close() in main
RECURSIVE Cleanup(_, _)
CloseSession(a, where) ==
  LET closed == IF a.db_session = "None" THEN a
                ELSE [a EXCEPT !.db_session = "closed",
                               !.close_calls = @ + 1]
  IN IF where = "except"
     THEN Cleanup([closed EXCEPT !.raised = "SystemExit"], "finally")
     ELSE [closed EXCEPT !.pc = "exited"]

\* Application.cleanup up to its first await (155-160)
Cleanup(a, where) ==
  LET b == [a EXCEPT !.cleanups = @ + 1]
  IN IF b.bot # "None" THEN [b EXCEPT !.pc = where \o "_stop"]
     ELSE CloseSession(b, where)

\* `except Exception as e` of start_services (140-142)
StartupFailed(a, step) ==
  Cleanup([a EXCEPT !.failed = step, !.raised = "Exception"], "except")

\* check_environment (116-119), then the first step
start_services ==
  /\ app.pc = "start_services"
  /\ \E outcome \in {"ok", "missing"} :
       app' = IF outcome = "missing"
              THEN Cleanup([app EXCEPT !.raised = "SystemExit"], "finally")
              ELSE [app EXCEPT !.pc = StartupOrder[1]]
  /\ UNCHANGED <<config, globals, channel, db, users, db_session, bot_stats,
                 rq, up, bc>>

\* initialize_database (58-68): it has no await of its own
initialize_database ==
  /\ app.pc = "initialize_database"
  /\ \E outcome \in {"ok", "Exception"} :
       app' = IF outcome = "ok"
              THEN [app EXCEPT !.db_session = "open",
                               !.pc = After("initialize_database")]
              ELSE StartupFailed(app, "initialize_database")
  /\ UNCHANGED <<config, globals, channel, db, users, db_session, bot_stats,
                 rq, up, bc>>

\* initialize_bot up to `await self.bot.start()` (70-83)
initialize_bot ==
  /\ app.pc = "initialize_bot"
  /\ \E outcome \in {"ok", "Exception"} :
       app' = IF outcome = "ok"
              THEN [app EXCEPT !.bot = "constructed", !.pc = "bot_start"]
              ELSE StartupFailed(app, "initialize_bot")
  /\ UNCHANGED <<config, globals, channel, db, users, db_session, bot_stats,
                 rq, up, bc>>

\* `await self.bot.start()` returns or raises
bot_start ==
  /\ app.pc = "bot_start"
  /\ \E outcome \in {"ok", "Exception"} :
       app' = IF outcome = "ok"
              THEN [app EXCEPT !.bot = "started", !.started = TRUE,
                               !.pc = "get_me"]
              ELSE StartupFailed(app, "initialize_bot")
  /\ UNCHANGED <<config, globals, channel, db, users, db_session, bot_stats,
                 rq, up, bc>>

\* `await self.bot.get_me()` returns or raises (84-89)
get_me ==
  /\ app.pc = "get_me"
  /\ \E outcome \in {"ok", "Exception"} :
       app' = IF outcome = "ok"
              THEN [app EXCEPT !.pc = After("initialize_bot")]
              ELSE StartupFailed(app, "initialize_bot")
  /\ UNCHANGED <<config, globals, channel, db, users, db_session, bot_stats,
                 rq, up, bc>>

\* initialize_web_server up to `await runner.setup()` (91-103)
initialize_web_server ==
  /\ app.pc = "initialize_web_server"
  /\ \E outcome \in {"ok", "Exception"} :
       app' = IF outcome = "ok"
              THEN [app EXCEPT !.web_server = "constructed",
                               !.pc = "runner_setup"]
              ELSE StartupFailed(app, "initialize_web_server")
  /\ UNCHANGED <<config, globals, channel, db, users, db_session, bot_stats,
                 rq, up, bc>>

\* `await runner.setup()` returns or raises (103-106)
runner_setup ==
  /\ app.pc = "runner_setup"
  /\ \E outcome \in {"ok", "Exception"} :
       app' = IF outcome = "ok" THEN [app EXCEPT !.pc = "site_start"]
              ELSE StartupFailed(app, "initialize_web_server")
  /\ UNCHANGED <<config, globals, channel, db, users, db_session, bot_stats,
                 rq, up, bc>>

\* `await site.start()` returns, and the server listens, or raises
site_start ==
  /\ app.pc = "site_start"
  /\ \E outcome \in {"ok", "Exception"} :
       app' = IF outcome = "ok"
              THEN [app EXCEPT !.web_server = "listening",
                               !.pc = After("initialize_web_server")]
              ELSE StartupFailed(app, "initialize_web_server")
  /\ UNCHANGED <<config, globals, channel, db, users, db_session, bot_stats,
                 rq, up, bc>>

\* the background task (128-129), then `await idle()`
create_task ==
  /\ app.pc = "create_task"
  /\ app' = [app EXCEPT !.stats_task = config.ENABLE_STATS, !.pc = "idle"]
  /\ UNCHANGED <<config, globals, channel, db, users, db_session, bot_stats,
                 rq, up, bc>>

\* idle() returns on a signal: start_services returns, main's finally runs
idle ==
  /\ app.pc = "idle"
  /\ app' = Cleanup(app, "finally")
  /\ UNCHANGED <<config, globals, channel, db, users, db_session, bot_stats,
                 rq, up, bc>>

\* Ctrl-C while start_services waits in one of its awaits before idle():
\* run_until_complete raises KeyboardInterrupt in main (180-185)
KeyboardInterrupt ==
  /\ app.pc \in {"bot_start", "get_me", "runner_setup", "site_start"}
  /\ app' = Cleanup([app EXCEPT !.raised = "KeyboardInterrupt"], "finally")
  /\ UNCHANGED <<config, globals, channel, db, users, db_session, bot_stats,
                 rq, up, bc>>

\* `await self.bot.stop()` of cleanup (160).  A started bot stops; what
\* stop() does with a bot that never started or has stopped already is the
\* library's choice: it returns, or it raises.  An exception leaves
\* cleanup: from the except clause of start_services it reaches main's
\* `except Exception` and then its finally; from main's finally it ends
\* the program before loop.close()
bot_stop ==
  /\ app.pc \in {"except_stop", "finally_stop"}
  /\ \E outcome \in {"ok", "ConnectionError"} :
       LET where == IF app.pc = "except_stop" THEN "except" ELSE "finally"
           called == [app EXCEPT !.stop_calls = @ + 1]
       IN /\ app.bot = "started" => outcome = "ok"
          /\ app' = IF outcome = "ok"
                    THEN CloseSession([called EXCEPT !.bot = "stopped"],
                                      where)
                    ELSE IF where = "except"
                    THEN Cleanup([called EXCEPT !.raised = outcome],
                                 "finally")
                    ELSE [called EXCEPT !.raised = outcome, !.pc = "exited"]
  /\ UNCHANGED <<config, globals, channel, db, users, db_session, bot_stats,
                 rq, up, bc>>

\* the event loop runs the bot's handlers once the bot is started, the
\* routes once the site listens, the task once it is created
LoopRuns == app.pc \in Awaits

Dispatch == LoopRuns /\ app.bot = "started" /\ start_handler

Serve ==
  /\ LoopRuns /\ app.web_server = "listening"
  /\ stream_handler(1) \/ serve_file_get_messages(1)

Task == LoopRuns /\ app.stats_task /\ update_stats_task

(***************************************************************************)
(* Specifications.                                                         *)
(***************************************************************************)
\* the storage channel: message 1 carries the stored file, whose media
\* reports file_size, message 2 carries no media
StoredChannel(file_size) ==
  [i \in ChannelIds |->
     IF i = 1 THEN [kind |-> "media", file_unique_id |-> "u1",
                    file_id |-> "f1", file_size |-> file_size]
     ELSE IF i = 2 THEN NoMedia("text")
     ELSE NoMedia("empty")]

InitTables ==
  /\ db = [f \in {"f1", "f2"} |->
             [id |-> IF f = "f1" THEN 1 ELSE 2,
              message_id |-> IF f = "f1" THEN 1 ELSE 2,
              user_id |-> 7, file_size |-> FileSize,
              views |-> 0, downloads |-> 0, last_accessed |-> FALSE]]
  /\ users = [u \in {7} |->
                [files_uploaded |-> 2, total_size_uploaded |-> 2 * FileSize,
                 is_banned |-> FALSE]]
  /\ db_session = CleanSession
  /\ bot_stats = [total_users |-> 1, total_files |-> 2]
  /\ rq = [r \in Reqs |-> Idle]
  /\ up = [u \in Uploads |-> NoUpload]
  /\ bc = NoBroadcast

InitStore ==
  /\ app = Running
  /\ config = Config
  /\ channel = StoredChannel(FileSize)
  /\ InitTables

\* the program as written under any of the settings
InitGate ==
  /\ app = Running
  /\ config \in Configs
  /\ globals = ServerGlobals
  /\ channel = StoredChannel(FileSize)
  /\ InitTables

\* the User rows as /broadcast finds them in data/bot.db: the uploader 7
\* and n more users, some of them banned
StoredUsers(n, banned) ==
  [id \in {7} \cup (11 .. (10 + n)) |->
     [files_uploaded |-> IF id = 7 THEN 2 ELSE 0,
      total_size_uploaded |-> IF id = 7 THEN 2 * FileSize ELSE 0,
      is_banned |-> id \in banned]]

InitBroadcast ==
  /\ app = Running
  /\ config = Config
  /\ globals = ServerGlobals
  /\ channel = StoredChannel(FileSize)
  /\ db = [f \in {"f1", "f2"} |->
             [id |-> IF f = "f1" THEN 1 ELSE 2,
              message_id |-> IF f = "f1" THEN 1 ELSE 2,
              user_id |-> 7, file_size |-> FileSize,
              views |-> 0, downloads |-> 0, last_accessed |-> FALSE]]
  /\ \E n \in 0 .. (MaxUsers - 1), banned \in SUBSET {7, 11, 12} :
        users = StoredUsers(n, banned)
  /\ db_session = CleanSession
  /\ bot_stats = [total_users |-> 1, total_files |-> 2]
  /\ rq = [r \in Reqs |-> Idle]
  /\ up = [u \in Uploads |-> NoUpload]
  /\ bc = NoBroadcast

\* the program from the start of main
InitApp ==
  /\ app = NoApp
  /\ config \in {Config, [Config EXCEPT !.ENABLE_STATS = FALSE]}
  /\ globals = ServerGlobals
  /\ channel = StoredChannel(FileSize)
  /\ InitTables

\* the stored media has no file_size attribute: getattr(..., 0) of line 494
InitSizeless ==
  /\ app = Running
  /\ config = Config
  /\ globals = ServerGlobals \cup UnboundNames
  /\ channel = StoredChannel(0)
  /\ InitTables

Init == globals = ServerGlobals /\ InitStore

InitLinked == globals = ServerGlobals \cup UnboundNames /\ InitStore

\* every step the program as written can take: with get_hash unbound no
\* request gets past line 486, so the steps of lines 528-534 never run
Next ==
  \E r \in Reqs :
     \/ stream_handler(r)
     \/ download_handler(r)
     \/ serve_file_get_messages(r)
     \/ short_link_handler(r)
     \/ short_link_get_messages(r)

NextLinked ==
  \/ Next
  \/ \E r \in Reqs :
        \/ serve_file_prepare(r)
        \/ serve_file_pull(r)
        \/ serve_file_write(r)

\* the bot's uploads next to one request of the web server
Upload(u) ==
  \/ file_handler(u)
  \/ file_handler_reply_text(u)
  \/ file_handler_forward(u)
  \/ file_handler_edit_success(u)
  \/ file_handler_edit_flood(u)
  \/ file_handler_retry(u)
  \/ file_handler_edit_error(u)

\* one upload under any of the settings, from anybody
NextGate ==
  \/ file_handler_any(1)
  \/ file_handler_get_chat_member(1)
  \/ send_force_sub_message(1)
  \/ file_handler_reply_invalid(1)
  \/ file_handler_reply_text(1)
  \/ file_handler_forward(1)
  \/ file_handler_edit_success(1)
  \/ file_handler_edit_flood(1)
  \/ file_handler_retry(1)
  \/ file_handler_edit_error(1)

SpecGate == InitGate /\ [][NextGate]_vars

\* one /broadcast of an administrator
NextBroadcast ==
  \/ broadcast_handler
  \/ broadcast_reply_usage
  \/ broadcast_reply_status
  \/ broadcast_send_message
  \/ broadcast_edit_progress
  \/ broadcast_edit_final

SpecBroadcast == InitBroadcast /\ [][NextBroadcast]_vars

\* main from its start to its end, with the handlers the loop runs
NextApp ==
  \/ start_services \/ initialize_database \/ initialize_bot \/ bot_start
  \/ get_me \/ initialize_web_server \/ runner_setup \/ site_start
  \/ create_task \/ idle \/ KeyboardInterrupt \/ bot_stop
  \/ Dispatch \/ Serve \/ Task

SpecApp == InitApp /\ [][NextApp]_vars

NextBot ==
  \/ Upload(1)
  \/ stream_handler(1)
  \/ download_handler(1)
  \/ serve_file_get_messages(1)

Spec == Init /\ [][Next]_vars

SpecBot == Init /\ [][NextBot]_vars

\* the users of the shared session on the bot's side
NextStore ==
  \/ \E u \in Uploads : Upload(u)
  \/ start_handler
  \/ update_stats_task

SpecStore == Init /\ [][NextStore]_vars

\* the web server, names bound, with the sizeless file: the stream source
\* has no chunk to produce for it, so serve_file_write has no step
NextSizeless ==
  \/ Next
  \/ \E r \in Reqs : serve_file_prepare(r) \/ serve_file_pull(r)

SpecSizeless == InitSizeless /\ [][NextSizeless]_vars

\* the web server whether or not the three names are bound
SpecEither == (Init \/ InitLinked) /\ [][NextLinked]_vars

SpecLinked == InitLinked /\ [][NextLinked]_vars

(***************************************************************************)
(* Vocabulary of the properties.                                           *)
(***************************************************************************)
Done(q) == q.pc = "done"

\* a request to /watch or /dl, and one to the short link /{file_hash}
IsServe(q) == q.handler \in {"stream_handler", "download_handler"}

IsShort(q) == q.handler = "short_link_handler"

\* get_messages returned a message that carries media
Fetched(q) == q.message.kind = "media"

CorrectHash(q) == Fetched(q) /\ q.file_hash = md5_12(q.message.file_unique_id)

WrongHash(q) == Fetched(q) /\ q.file_hash # md5_12(q.message.file_unique_id)

\* the platform, the database or the client connection failed
EnvFailure(q) ==
  q.error \in {"PlatformError", "FloodWait", "SinkError", "ConnectionError"}

\* a request with a correct hash that no failure of its environment hit
Served(q) == Done(q) /\ CorrectHash(q) /\ ~EnvFailure(q)

TotalSize(q) == q.message.file_size

\* the Range grammar of the specification: bytes=<start>-<end>, end optional
AllDigits(s) == s # <<>> /\ \A i \in 1 .. Len(s) : IsDigit(s[i])

RangeParts(h) == Split(From(h, Len(bytes_eq) + 1), "-")

IsByteRange(h) ==
  /\ h # NoHeader
  /\ StartsWith(h, bytes_eq)
  /\ Len(RangeParts(h)) = 2
  /\ AllDigits(RangeParts(h)[1])
  /\ RangeParts(h)[2] = <<>> \/ AllDigits(RangeParts(h)[2])

IsSuffixRange(h) ==
  /\ h # NoHeader
  /\ StartsWith(h, bytes_eq)
  /\ Len(RangeParts(h)) = 2
  /\ RangeParts(h)[1] = <<>>
  /\ AllDigits(RangeParts(h)[2])

IsMalformedRange(h) ==
  h # NoHeader /\ ~IsByteRange(h) /\ ~IsSuffixRange(h)

RangeStart(h) == IntBodyVal(RangeParts(h)[1], 0)

\* the end after clamping to total_size - 1
RangeEnd(h, total_size) ==
  IF RangeParts(h)[2] = <<>> THEN total_size - 1
  ELSE Min(IntBodyVal(RangeParts(h)[2], 0), total_size - 1)

ContentRange(first, last, size) ==
  [unit |-> "bytes", first |-> first, last |-> last, size |-> size]

\* Content-Range: bytes */<total_size>
UnsatisfiedRange(size) ==
  [unit |-> "bytes */", first |-> 0, last |-> 0, size |-> size]

\* a full 200 response over [0, total_size - 1]
FullResponse(q) ==
  /\ q.status = 200
  /\ q.response.content_length = TotalSize(q)
  /\ q.response.content_range = NoContentRange
  /\ q.from_bytes = 0 /\ q.to_bytes = TotalSize(q) - 1

(***************************************************************************)
(* C1.  A request whose hash differs from the token of the fetched         *)
(* message's file_unique_id is answered 403; no response is prepared, no   *)
(* byte is streamed and the Stats Sink is not invoked.                     *)
(***************************************************************************)
C1_WrongHashForbidden ==
  \A r \in Reqs :
     Done(rq[r]) /\ WrongHash(rq[r]) =>
        /\ rq[r].status = 403
        /\ ~rq[r].response.prepared
        /\ rq[r].written = 0
        /\ rq[r].stats_calls = 0

C4_NoLostUpdate ==
  (\A r \in Reqs : Served(rq[r]) /\ rq[r].message.file_id = "f1") =>
     /\ \A r \in Reqs : rq[r].status \in {200, 206}
     /\ db["f1"].views = Cardinality({r \in Reqs : rq[r].mode = "stream"})
     /\ db["f1"].downloads =
          Cardinality({r \in Reqs : rq[r].mode = "download"})

(***************************************************************************)
(* C5.  A request with a correct hash and no Range header is answered 200  *)
(* with Content-Length total_size and no Content-Range, and asks the       *)
(* stream source for [0, total_size - 1].                                  *)
(***************************************************************************)
C5_NoRangeFull ==
  \A r \in Reqs :
     Served(rq[r]) /\ rq[r].range = NoHeader => FullResponse(rq[r])

(***************************************************************************)
(* C6.  A request with a correct hash and a Range header bytes=s-e or      *)
(* bytes=s- with 0 <= s <= E (E the end clamped to total_size - 1) is      *)
(* answered 206 with Content-Range bytes s-E/total_size and                *)
(* Content-Length E - s + 1.                                               *)
(***************************************************************************)
C6_ValidRangePartial ==
  \A r \in Reqs :
     LET q == rq[r]
         s == RangeStart(q.range)
         E == RangeEnd(q.range, TotalSize(q))
     IN Served(q) /\ IsByteRange(q.range) /\ s <= E =>
           /\ q.status = 206
           /\ q.response.content_range = ContentRange(s, E, TotalSize(q))
           /\ q.response.content_length = E - s + 1

NoSuchFile(q) ==
  \/ q.lookup = "MessageNotFound"
  \/ q.lookup = "message" /\ ~Fetched(q)

C11_MissingFileNotFound ==
  \A r \in Reqs :
     LET q == rq[r]
     IN Done(q) /\ IsServe(q) /\ NoSuchFile(q) =>
           /\ q.status = 404
           /\ ~q.response.prepared /\ q.response = NoResponse
           /\ q.written = 0
           /\ q.stats_calls = 0

\* one request ended on MessageNotFound and another on a message without
\* media, each answered 404
C11_Witness ==
  \E r1, r2 \in Reqs :
     /\ IsServe(rq[r1]) /\ IsServe(rq[r2])
     /\ Done(rq[r1]) /\ rq[r1].lookup = "MessageNotFound"
     /\ rq[r1].status = 404
     /\ Done(rq[r2]) /\ rq[r2].lookup = "message" /\ ~Fetched(rq[r2])
     /\ rq[r2].status = 404

(***************************************************************************)
(* C12.  A request made with the message id and the token of a link that   *)
(* file_handler delivered, whose lookup returns the message with the media *)
(* that was uploaded, passes the hash verification of _serve_file: it is   *)
(* not answered 403 and goes on past line 487.                             *)
(***************************************************************************)
UsesLink(q, w) ==
  /\ w.delivered
  /\ q.message_id = w.link.message_id /\ q.file_hash = w.link.file_hash
  /\ q.lookup = "message" /\ q.message = w.media

C12_IssuedLinkVerifies ==
  \A u \in Uploads, r \in Reqs :
     Done(rq[r]) /\ UsesLink(rq[r], up[u]) =>
        rq[r].status # 403 /\ rq[r].verified

(***************************************************************************)
(* C13.  A short-link request whose lookups all return streams no byte;    *)
(* it is answered 404 when no stored record has a message with the         *)
(* requested token, and otherwise with the page whose /watch and /dl links *)
(* carry the message id of such a record and the requested token.          *)
(***************************************************************************)
Matching(token) ==
  {db[f].message_id :
     f \in {g \in DOMAIN db : get_hash(channel[db[g].message_id]) = token}}

C13_ShortLinkResolves ==
  \A r \in Reqs :
     LET q == rq[r]
     IN Done(q) /\ IsShort(q) /\ q.lookup \in {"", "message"} =>
           /\ q.written = 0 /\ ~q.response.prepared
           /\ IF Matching(q.file_hash) = {} THEN q.status = 404
              ELSE /\ q.status = 200
                   /\ q.page.message_id \in Matching(q.file_hash)
                   /\ q.page.file_hash = q.file_hash

(***************************************************************************)
(* C14.  A short-link request never ends in an exception that no handler   *)
(* catches, whatever the records and their messages: it ends with the page *)
(* or with 404.                                                            *)
(***************************************************************************)
C14_ShortLinkNeverCrashes ==
  \A r \in Reqs :
     Done(rq[r]) /\ IsShort(rq[r]) =>
        ~rq[r].unhandled /\ rq[r].status \in {200, 404}

C17_PlatformFailure500 ==
  \A r \in Reqs :
     Done(rq[r]) /\ IsServe(rq[r]) /\ rq[r].error = "PlatformError" =>
        rq[r].status = 500 /\ rq[r].lookups = 1

\* a serve request whose lookup raised such a failure has ended
C17_Witness ==
  \E r \in Reqs :
     /\ Done(rq[r]) /\ IsServe(rq[r])
     /\ rq[r].lookup = "Exception" /\ rq[r].error = "PlatformError"
     /\ rq[r].status = 500

(***************************************************************************)
(* C18.  A serve request whose lookup ended on FloodWait was retried and   *)
(* is answered 502 or 503, never 500.                                      *)
(***************************************************************************)
C18_RateLimitRetried ==
  \A r \in Reqs :
     Done(rq[r]) /\ IsServe(rq[r]) /\ rq[r].lookup = "FloodWait" =>
        rq[r].lookups > 1 /\ rq[r].status \in {502, 503}

(***************************************************************************)
(* C19.  file_handler sleeps the seconds each FloodWait asked for before   *)
(* it retries, and gives up after a bounded number of retries: a call that *)
(* is MaxRetries levels deep does not go to sleep for one more retry.      *)
(***************************************************************************)
C19_RetriesCapped ==
  \A u \in Uploads :
     /\ Len(up[u].slept) = up[u].depth
     /\ up[u].pc = "sleep" => up[u].depth < MaxRetries

(***************************************************************************)
(* C20.  No step removes a FileStats record, changes its message id or its *)
(* row id, or lowers its views or downloads; a step that changes a counter *)
(* of a record is the update_file_stats call of a serve request that has   *)
(* passed the hash verification for the file of that record.               *)
(***************************************************************************)
Counts(row) == <<row.views, row.downloads>>

SinkCallFor(r, f) ==
  /\ IsServe(rq'[r]) /\ rq'[r].verified
  /\ rq'[r].stats_calls = rq[r].stats_calls + 1
  /\ rq'[r].message.file_id = f

C21_RequestsIndependent ==
  /\ db_session = CleanSession
  /\ \A u \in Uploads : up[u].error # "PendingRollbackError"

(***************************************************************************)
(* C28.  In the committed tables every user's files_uploaded is the number *)
(* of FileStats records with that user_id and total_size_uploaded is the   *)
(* sum of their file_size, and every record belongs to a user whose        *)
(* counters include it.                                                    *)
(***************************************************************************)
RecordsOf(user_id) == {f \in DOMAIN db : db[f].user_id = user_id}

RECURSIVE SumSize(_)
SumSize(files) ==
  IF files = {} THEN 0
  ELSE LET f == CHOOSE g \in files : TRUE
       IN db[f].file_size + SumSize(files \ {f})

C28_StoreConsistent ==
  /\ \A f \in DOMAIN db : db[f].user_id \in DOMAIN users
  /\ \A user_id \in DOMAIN users :
        /\ users[user_id].files_uploaded = Cardinality(RecordsOf(user_id))
        /\ users[user_id].total_size_uploaded = SumSize(RecordsOf(user_id))

IsPrefix(s, t) ==
  /\ Len(s) <= Len(t)
  /\ \A i \in 1 .. Len(s) : s[i] = t[i]

AdvertisedFirst(q) ==
  IF q.response.status = 206 THEN q.response.content_range.first ELSE 0

C27_UploadIdempotent ==
  /\ \A u \in Uploads : up[u].forwards <= 1
  /\ \A id \in DOMAIN users :
        users[id].files_uploaded <=
          2 + Cardinality({u \in Uploads : up[u].user_id = id
                                           /\ up[u].forwards > 0})

NoHash(q) == IsServe(q) /\ q.file_hash \in {None, ""}

EndsWith(s, suffix) ==
  Len(suffix) <= Len(s) /\ From(s, Len(s) - Len(suffix) + 1) = suffix

SizeWithin(w) ==
  /\ config.MIN_FILE_SIZE <= w.media.file_size
  /\ w.media.file_size <= config.MAX_FILE_SIZE

ExtensionListed(w) ==
  \/ config.ALLOWED_EXTENSIONS = {}
  \/ \E e \in config.ALLOWED_EXTENSIONS :
        EndsWith(lower(w.file_name), <<".">> \o e)

Rejected(w) == w.pc # "idle" /\ ~(SizeWithin(w) /\ ExtensionListed(w))

C31_RejectedFileNoEffect ==
  [][\A u \in Uploads :
       Rejected(up'[u]) /\ up'[u] # up[u] =>
          /\ up'[u].forwards = 0
          /\ UNCHANGED <<channel, db, users, db_session>>]_vars

\* a file above the upper limit was turned away and its call has ended
C31_Witness ==
  /\ up[1].pc = "done" /\ ~up[1].unhandled
  /\ up[1].media.file_size > config.MAX_FILE_SIZE
  /\ Rejected(up[1])

(***************************************************************************)
(* C32.  With force-subscribe enabled and a channel configured, an upload  *)
(* from a user who is not owner, administrator or member of the channel is *)
(* not forwarded, gets no record and is not answered with links, also when *)
(* the membership check ends with an error.                                *)
(***************************************************************************)
ForceSub == config.ENABLE_FORCE_SUB /\ config.FORCE_SUB_CHANNEL # None

Outsider(w) ==
  w.pc # "idle" /\ w.membership \notin {"OWNER", "ADMINISTRATOR", "MEMBER"}

C32_OutsiderNotServed ==
  [][\A u \in Uploads :
       ForceSub /\ Outsider(up'[u]) /\ up'[u] # up[u] =>
          /\ up'[u].forwards = 0 /\ up'[u].link = NoLink
          /\ ~up'[u].delivered
          /\ UNCHANGED <<channel, db, users, db_session>>]_vars

\* the membership check of an outsider's upload ended with an error
C32_Witness ==
  /\ ForceSub /\ Outsider(up[1])
  /\ up[1].pc = "done" /\ up[1].error = "ChatAdminRequired"

(***************************************************************************)
(* C33.  A /broadcast with a text, whose status messages the platform      *)
(* accepts, ends with the final report after one send attempt to each      *)
(* user that is not banned and none to a banned one; in the report         *)
(* success + failed is the number of users that are not banned.            *)
(***************************************************************************)
NotBanned == {id \in DOMAIN users : ~users[id].is_banned}

C33_BroadcastReports ==
  bc.pc = "done" /\ bc.has_text /\ bc.error # "PlatformError" =>
     /\ bc.report # NoReport
     /\ bc.report.success + bc.report.failed = Cardinality(NotBanned)
     /\ Len(bc.attempts) = Cardinality(NotBanned)
     /\ {bc.attempts[k] : k \in 1 .. Len(bc.attempts)} = NotBanned

(***************************************************************************)
(* C34.  start_services opens the database session before it constructs    *)
(* the bot and starts the bot before the web server listens: every step of *)
(* a handler or of the background task is taken with the session open and  *)
(* the bot started; once a step of the startup has failed, none of the     *)
(* three advances.                                                         *)
(***************************************************************************)
HandlerStep ==
  \/ rq' # rq \/ users' # users \/ db' # db
  \/ db_session' # db_session \/ bot_stats' # bot_stats

C34_StartupOrder ==
  [][/\ HandlerStep => app.db_session = "open" /\ app.bot = "started"
     /\ app'.bot # "None" => app'.db_session # "None"
     /\ app'.web_server = "listening" => app'.started
     /\ app.failed # "" =>
           /\ app'.db_session \in {app.db_session, "closed"}
           /\ app'.bot \in {app.bot, "stopped"}
           /\ app'.web_server = app.web_server]_vars

\* all three are up, /start has created a user and a request was answered
C34_Witness ==
  /\ app.pc = "idle" /\ app.web_server = "listening"
  /\ 8 \in DOMAIN users /\ rq[1].pc = "done"

(***************************************************************************)
(* C35.  When main has ended, cleanup has run once: a bot that was started *)
(* has been stopped by one call of stop, a session that was opened has     *)
(* been closed by one call of close.                                       *)
(***************************************************************************)
C35_CleanupOnce ==
  app.pc = "exited" =>
     /\ app.cleanups = 1
     /\ app.started => app.stop_calls = 1 /\ app.bot = "stopped"
     /\ app.db_session # "None" => app.close_calls = 1

====
